---------------------------- MODULE Spec2Model ----------------------------
(***************************************************************************)
(* Working-hours interval model of Data::WorkingInterval,                  *)
(* Data::WorkingIntervals and Data::WorkingHours                           *)
(* (Telegram/SourceFiles/data/business/data_business_common.h).            *)
(*                                                                         *)
(* The header holds the interval algebra (shifted, united, intersected,    *)
(* the bool conversions, WorkingHours::normalized).  The bodies of         *)
(* WorkingIntervals::normalized, ExtractDayIntervals, RemoveDayIntervals   *)
(* and ReplaceDayIntervals are only declared there; they are modelled from *)
(* sections 4.2 and 4.3 of the specification.                              *)
(***************************************************************************)
EXTENDS Integers, Sequences, FiniteSets

VARIABLES
    a,        \* interval ops: the receiver (*this)
    b,        \* interval ops: the argument `other`
    off,      \* interval ops: the argument `offset`
    build,    \* how the last call site treats signed overflow (see Builds)
    op,       \* the last operation applied
    res,      \* interval ops: the value returned by the last operation
    nonEmpty, \* interval ops: operator bool of that value, as the program sees it
    day,      \* schedule ops: the argument dayIndex
    hours,    \* schedule ops: the WorkingHours value the caller holds
    prev,     \* schedule ops: the WorkingHours value before the last operation
    pop,      \* schedule ops: the operation before the last one
    ext,      \* schedule ops: the last result of ExtractDayIntervals
    truthy    \* schedule ops: the last result of WorkingHours::operator bool

intervalVars == <<a, b, off, build, res, nonEmpty>>
scheduleVars == <<day, hours, prev, pop, ext, truthy>>
vars ==
    <<a, b, off, build, op, res, nonEmpty, day, hours, prev, pop, ext, truthy>>

-----------------------------------------------------------------------------
(* Program constants and the width of TimeId (int32).                      *)

kDay == 24 * 3600
kWeek == 7 * kDay
kInNextDayMax == 6 * 3600

MaxInt32 == 2147483647
MinInt32 == (-MaxInt32) - 1

Max(x, y) == IF x >= y THEN x ELSE y
Min(x, y) == IF x <= y THEN x ELSE y

\* WorkingInterval{ start, end }
Interval(s, e) == [start |-> s, end |-> e]

\* WorkingInterval(): both fields default to 0
EmptyInterval == Interval(0, 0)

\* x + y leaves the range of int32
AddOverflows(x, y) ==
    IF y >= 0 THEN x > MaxInt32 - y ELSE x < MinInt32 - y

\* x + y in two's complement int32, computed without leaving the int32 range
Add32(x, y) ==
    IF y >= 0
    THEN IF x > MaxInt32 - y
         THEN ((x - MaxInt32) - 1) + ((y - MaxInt32) - 1)
         ELSE x + y
    ELSE IF x < MinInt32 - y
         THEN ((x + MaxInt32) + 1) + ((y + MaxInt32) + 1)
         ELSE x + y

-----------------------------------------------------------------------------
(* WorkingInterval                                                         *)

\* explicit operator bool: start < end
WorkingIntervalBool(i) == i.start < i.end

\* shifted(offset) that forgets the offset on `end`
shifted_StartOnly(i, offset) == Interval(Add32(i.start, offset), i.end)

\* shifted(offset): { start + offset, end + offset } on int32 fields
shifted(i, offset) == Interval(Add32(i.start, offset), Add32(i.end, offset))

\* one of the two additions of shifted(offset) overflows int32
ShiftOverflows(i, offset) ==
    AddOverflows(i.start, offset) \/ AddOverflows(i.end, offset)

\* bool(i.shifted(offset)) as the build computes it: an optimizing build may
\* assume that neither addition overflows and answers i.start < i.end without
\* adding the offset; the others compare the two sums they stored
ShiftedBool(i, offset, bld) ==
    IF bld = "assume"
    THEN WorkingIntervalBool(i)
    ELSE WorkingIntervalBool(shifted(i, offset))

\* united(other) merging only ranges that overlap or touch (gap-aware union)
united_GapAware(i, other) ==
    IF ~WorkingIntervalBool(i) THEN other
    ELSE IF ~WorkingIntervalBool(other) THEN i
    ELSE IF other.start > i.end \/ i.start > other.end THEN i
    ELSE Interval(Min(i.start, other.start), Max(i.end, other.end))

\* united(other) keeping the receiver's end instead of the larger end
united_KeepEnd(i, other) ==
    IF ~WorkingIntervalBool(i) THEN other
    ELSE IF ~WorkingIntervalBool(other) THEN i
    ELSE Interval(Min(i.start, other.start), i.end)

\* united(other) keeping the receiver's start instead of the smaller start
united_KeepStart(i, other) ==
    IF ~WorkingIntervalBool(i) THEN other
    ELSE IF ~WorkingIntervalBool(other) THEN i
    ELSE Interval(i.start, Max(i.end, other.end))

\* united(other)
united(i, other) ==
    IF ~WorkingIntervalBool(i) THEN other
    ELSE IF ~WorkingIntervalBool(other) THEN i
    ELSE Interval(Min(i.start, other.start), Max(i.end, other.end))

\* intersected(other) taking the smaller start instead of the larger one
intersected_MinStart(i, other) ==
    LET result == Interval(Min(i.start, other.start), Min(i.end, other.end))
    IN  IF WorkingIntervalBool(result) THEN result ELSE EmptyInterval

\* intersected(other) without the final emptiness check
intersected_NoCanon(i, other) ==
    Interval(Max(i.start, other.start), Min(i.end, other.end))

\* intersected(other) answering the receiver when the ranges do not meet
intersected_KeepThis(i, other) ==
    LET result == Interval(Max(i.start, other.start), Min(i.end, other.end))
    IN  IF WorkingIntervalBool(result) THEN result ELSE i

\* intersected(other)
intersected(i, other) ==
    LET result == Interval(Max(i.start, other.start), Min(i.end, other.end))
    IN  IF WorkingIntervalBool(result) THEN result ELSE EmptyInterval

-----------------------------------------------------------------------------
(* WorkingIntervals and WorkingHours                                       *)

\* WorkingHours{ intervals, timezoneId }
Hours(list, tz) == [intervals |-> list, timezoneId |-> tz]

\* WorkingHours(): no intervals, empty timezone id
NoHours == Hours(<<>>, "")

\* WorkingIntervals::operator bool: some interval of the list is non-empty
WorkingIntervalsBool(list) ==
    \E k \in 1..Len(list) : WorkingIntervalBool(list[k])

\* WorkingHours::operator bool answering from the intervals
WorkingHoursBool_FromIntervals(h) == WorkingIntervalsBool(h.intervals)

\* WorkingHours::operator bool: !timezoneId.isEmpty()
WorkingHoursBool(h) == h.timezoneId # ""

\* sort order of normalization step 2: by start, ties by end
Less(i, j) == i.start < j.start \/ (i.start = j.start /\ i.end < j.end)

RECURSIVE Insert(_, _)
\* insertion into a list sorted by Less
Insert(i, sorted) ==
    IF sorted = <<>> THEN <<i>>
    ELSE IF Less(i, Head(sorted)) THEN <<i>> \o sorted
    ELSE <<Head(sorted)>> \o Insert(i, Tail(sorted))

RECURSIVE SortByStart(_)
\* normalization step 2
SortByStart(list) ==
    IF list = <<>> THEN <<>> ELSE Insert(Head(list), SortByStart(Tail(list)))

\* flush the accumulator to the output if it is non-empty
Flush(out, acc) == IF WorkingIntervalBool(acc) THEN Append(out, acc) ELSE out

RECURSIVE Sweep(_, _, _)
\* normalization steps 3 and 4: merge each interval into the accumulator when
\* next.start <= accumulator.end, else flush and start a new accumulator
Sweep(list, acc, out) ==
    IF list = <<>> THEN Flush(out, acc)
    ELSE IF ~WorkingIntervalBool(acc) \/ Head(list).start <= acc.end
         THEN Sweep(Tail(list), united(acc, Head(list)), out)
         ELSE Sweep(Tail(list), Head(list), Flush(out, acc))

\* normalization steps 1 to 4
SortAndMerge(list) ==
    Sweep(SortByStart(SelectSeq(list, WorkingIntervalBool)), EmptyInterval, <<>>)

\* the part of an interval before the week end
WeekHead(i) == intersected(i, Interval(MinInt32, kWeek))

\* the tail of an interval, its part past the week end, moved to the start
\* of the week
WeekTail(i) == shifted(intersected(i, Interval(kWeek, MaxInt32)), -kWeek)

\* the list with interval k cut at the week end
WithoutTail(list, k) ==
    SubSeq(list, 1, k - 1)
        \o Flush(<<>>, WeekHead(list[k]))
        \o SubSeq(list, k + 1, Len(list))

\* interval k ends past the week end and its tail is contiguous across the
\* wrap point: moved to the start of the week it overlaps or touches an
\* interval of the list
Wraps(list, k) ==
    /\ list[k].end > kWeek
    /\ \E j \in 1..Len(WithoutTail(list, k)) :
          /\ WithoutTail(list, k)[j].start <= WeekTail(list[k]).end
          /\ WeekTail(list[k]).start <= WithoutTail(list, k)[j].end

\* WorkingIntervals::normalized wrapping the tail of the last interval only
normalized_LastOnly(list) ==
    LET merged == SortAndMerge(list)
        n == Len(merged)
    IN  IF n > 0 /\ Wraps(merged, n)
        THEN SortAndMerge(WithoutTail(merged, n) \o <<WeekTail(merged[n])>>)
        ELSE merged

RECURSIVE WrapTail(_)
\* normalization step 5 on a sorted, merged list: every interval whose end
\* exceeds kWeek has its tail cut off and merged at the start of the week
\* when the tail is contiguous there, and keeps its overshoot otherwise; the
\* list is swept again after each merge, until no tail is left to merge
WrapTail(list) ==
    LET ks == {k \in 1..Len(list) : Wraps(list, k)}
    IN  IF ks = {} THEN list
        ELSE LET k == CHOOSE x \in ks : \A y \in ks : y <= x
             IN  WrapTail(SortAndMerge(WithoutTail(list, k)
                                           \o <<WeekTail(list[k])>>))

\* WorkingIntervals::normalized: steps 1 to 4, then the wrap step
normalized(list) == WrapTail(SortAndMerge(list))

\* WorkingHours::normalized: { intervals.normalized(), timezoneId }
HoursNormalized(h) == Hours(normalized(h.intervals), h.timezoneId)

\* the nominal window of day dayIndex
DayNominal(dayIndex) == Interval(dayIndex * kDay, (dayIndex + 1) * kDay)

\* the extended window of day dayIndex: the nominal day and the
\* kInNextDayMax seconds past its end
DayWindow(dayIndex) ==
    Interval(dayIndex * kDay, (dayIndex + 1) * kDay + kInNextDayMax)

\* the shift of every interval of a list
ShiftedAll(list, offset) == [k \in 1..Len(list) |-> shifted(list[k], offset)]

\* ExtractDayIntervals: every interval clipped to the day's extended window,
\* the non-empty clips shifted to day-relative offsets
ExtractDayIntervals(list, dayIndex) ==
    LET clipped == [k \in 1..Len(list) |->
                        intersected(list[k], DayWindow(dayIndex))]
    IN  ShiftedAll(SelectSeq(clipped, WorkingIntervalBool), -(dayIndex * kDay))

RECURSIVE RemoveDayIntervals(_, _)
\* RemoveDayIntervals: every interval cut to what lies before and after the
\* day's window, the nominal day
RemoveDayIntervals(list, dayIndex) ==
    IF list = <<>> THEN <<>>
    ELSE LET window == DayNominal(dayIndex)
             first == intersected(Head(list), Interval(MinInt32, window.start))
             second == intersected(Head(list), Interval(window.end, MaxInt32))
         IN  Flush(Flush(<<>>, first), second)
                 \o RemoveDayIntervals(Tail(list), dayIndex)

\* ReplaceDayIntervals: remove the day, insert the replacement shifted onto
\* the day, normalize
ReplaceDayIntervals(list, dayIndex, replacement) ==
    normalized(RemoveDayIntervals(list, dayIndex)
                   \o ShiftedAll(replacement, dayIndex * kDay))

-----------------------------------------------------------------------------
(* Schedule operations as a state machine: the schedule and the day are    *)
(* drawn in Init, one action per function.                                 *)

MaxLen == 3

Hour(n) == n * 3600

\* raw input intervals: overlapping, touching, apart, crossing midnight,
\* inside and across the overshoot of a day, starting below 0, overshooting
\* the week end, starting past the week end, empty
SchedIntervals ==
    { Interval(0, Hour(1)),
      Interval(-Hour(2), Hour(1)),
      Interval(kWeek + Hour(3), kWeek + Hour(4)),
      Interval(Hour(2), Hour(9)),
      Interval(Hour(9), Hour(23)),
      Interval(Hour(22), kDay + Hour(3)),
      Interval(kDay + Hour(4), kDay + Hour(8)),
      Interval(kDay + Hour(20), 3 * kDay + Hour(4)),
      Interval(6 * kDay + Hour(21), kWeek + Hour(2)),
      Interval(0, 0),
      Interval(Hour(13), Hour(9)) }

ListsUpTo(S, n) == UNION {[1..k -> S] : k \in 0..n}

Days == 0..6

\* day-relative replacement lists
Replacements ==
    { <<>>, <<Interval(Hour(10), Hour(12))>>, <<Interval(Hour(20), Hour(26))>> }

InitSchedule ==
    /\ a = EmptyInterval
    /\ b = EmptyInterval
    /\ off = 0
    /\ build = "wrap"
    /\ res = EmptyInterval
    /\ nonEmpty = FALSE
    /\ op = "init"
    /\ pop = "none"
    /\ day \in Days
    /\ hours \in {Hours(l, "Europe/Kyiv") : l \in ListsUpTo(SchedIntervals, MaxLen)}
    /\ prev = NoHours
    /\ ext = <<>>
    /\ truthy = FALSE

\* hours = hours.normalized()
Normalize ==
    /\ \/ op = "init"
       \/ op = "normalized" /\ pop = "init"
       \/ op \in {"remove", "replace"} /\ pop \in {"init", "extract"}
    /\ hours' = HoursNormalized(hours)
    /\ prev' = hours
    /\ pop' = op
    /\ op' = "normalized"
    /\ UNCHANGED <<day, ext, truthy, intervalVars>>

\* ext = ExtractDayIntervals(hours.intervals, day)
Extract ==
    /\ \/ op \in {"init", "remove"}
       \/ op = "normalized" /\ pop \in {"init", "normalized"}
    /\ ext' = ExtractDayIntervals(hours.intervals, day)
    /\ prev' = hours
    /\ pop' = op
    /\ op' = "extract"
    /\ UNCHANGED <<day, hours, truthy, intervalVars>>

\* hours.intervals = RemoveDayIntervals(hours.intervals, day)
Remove ==
    /\ \/ op = "init"
       \/ op = "normalized" /\ pop = "init"
    /\ hours' = Hours(RemoveDayIntervals(hours.intervals, day), hours.timezoneId)
    /\ prev' = hours
    /\ pop' = op
    /\ op' = "remove"
    /\ UNCHANGED <<day, ext, truthy, intervalVars>>

\* hours.intervals = ReplaceDayIntervals(hours.intervals, day, ext): the day's
\* intervals just extracted are put back
Replace ==
    /\ op = "extract"
    /\ pop \in {"init", "normalized"}
    /\ hours' = Hours(ReplaceDayIntervals(hours.intervals, day, ext),
                      hours.timezoneId)
    /\ prev' = hours
    /\ pop' = op
    /\ op' = "replace"
    /\ UNCHANGED <<day, ext, truthy, intervalVars>>

\* hours.intervals = ReplaceDayIntervals(hours.intervals, day, replacement)
\* with new hours for the day
ReplaceWith ==
    /\ op = "init"
    /\ \E replacement \in Replacements :
          hours' = Hours(ReplaceDayIntervals(hours.intervals, day, replacement),
                         hours.timezoneId)
    /\ prev' = hours
    /\ pop' = op
    /\ op' = "replace"
    /\ UNCHANGED <<day, ext, truthy, intervalVars>>

NextSchedule == Normalize \/ Extract \/ Remove \/ Replace \/ ReplaceWith

SpecSchedule == InitSchedule /\ [][NextSchedule]_vars

-----------------------------------------------------------------------------
(* WorkingHours truthiness as a state machine: the intervals and the       *)
(* timezone id are drawn in Init.                                          *)

HoursIntervals ==
    { Interval(0, Hour(1)),
      Interval(6 * kDay + Hour(21), kWeek + Hour(2)),
      Interval(0, 0),
      Interval(Hour(13), Hour(9)) }

TimezoneIds == {"", "Europe/Kyiv"}

InitHours ==
    /\ a = EmptyInterval
    /\ b = EmptyInterval
    /\ off = 0
    /\ build = "wrap"
    /\ res = EmptyInterval
    /\ nonEmpty = FALSE
    /\ op = "init"
    /\ pop = "none"
    /\ day = 0
    /\ hours \in {Hours(l, tz) : l \in ListsUpTo(HoursIntervals, MaxLen),
                                 tz \in TimezoneIds}
    /\ prev = NoHours
    /\ ext = <<>>
    /\ truthy = FALSE

\* truthy = bool(hours)
TestBool ==
    /\ op \in {"init", "normalized"}
    /\ truthy' = WorkingHoursBool(hours)
    /\ pop' = op
    /\ op' = "bool"
    /\ UNCHANGED <<day, hours, prev, ext, intervalVars>>

NextHours == Normalize \/ TestBool

SpecHours == InitHours /\ [][NextHours]_vars

-----------------------------------------------------------------------------
(* Interval operations as a state machine: the operands are drawn in Init, *)
(* one action per member function.                                         *)

Points32 ==
    {MinInt32, -kDay, 0, kInNextDayMax, kDay, kWeek, MaxInt32 - kDay, MaxInt32}

Intervals32 == {Interval(s, e) : s \in Points32, e \in Points32}

Offsets == {kWeek, -kWeek, kDay, -kDay}

\* signed overflow of TimeId is undefined; what a build does with it:
\*   "wrap"   the sums wrap in two's complement and are compared as stored
\*   "trap"   the overflowing addition aborts the program
\*   "assume" the sums are stored wrapped, and operator bool of the result is
\*            folded to that of the operand (the optimizer assumes no overflow)
\* the outcome is decided at each call site: one binary may wrap at one call
\* site, fold at another and trap at a third
Builds == {"wrap", "trap", "assume"}


InitInterval ==
    /\ a \in Intervals32
    /\ b \in Intervals32
    /\ off \in Offsets
    /\ build \in Builds
    /\ op = "init"
    /\ res = EmptyInterval
    /\ nonEmpty = FALSE
    /\ day = 0
    /\ hours = NoHours
    /\ prev = NoHours
    /\ pop = "none"
    /\ ext = <<>>
    /\ truthy = FALSE

\* res = a.shifted(off), nonEmpty = bool(res); signed overflow is undefined,
\* and the outcome is chosen at this call site
Shifted ==
    /\ op = "init"
    /\ \E site \in Builds :
        /\ build' = site
        /\ IF ShiftOverflows(a, off) /\ site = "trap"
           THEN /\ op' = "trapped"
                /\ res' = res
                /\ nonEmpty' = nonEmpty
           ELSE /\ op' = "shifted"
                /\ res' = shifted(a, off)
                /\ nonEmpty' = ShiftedBool(a, off, site)
    /\ UNCHANGED <<a, b, off, scheduleVars>>

\* res = a.shifted(off).shifted(-off), nonEmpty = bool(res); the outcome of an
\* overflow is chosen at this call site, whatever the first shift did: the
\* fold answers for the pair the first shift stored, and the wrapped sums
\* answer as the fold of the whole chain does, for the receiver
ShiftedBack ==
    /\ op = "shifted"
    /\ \E site \in Builds :
        /\ build' = site
        /\ IF ShiftOverflows(res, -off) /\ site = "trap"
           THEN /\ op' = "trapped"
                /\ res' = res
                /\ nonEmpty' = nonEmpty
           ELSE /\ op' = "shiftedBack"
                /\ res' = shifted(res, -off)
                /\ nonEmpty' = ShiftedBool(res, -off, site)
    /\ UNCHANGED <<a, b, off, scheduleVars>>

\* res = a.united(b), nonEmpty = bool(res)
United ==
    /\ op = "init"
    /\ op' = "united"
    /\ res' = united(a, b)
    /\ nonEmpty' = WorkingIntervalBool(united(a, b))
    /\ UNCHANGED <<a, b, off, build, scheduleVars>>

\* res = a.intersected(b), nonEmpty = bool(res)
Intersected ==
    /\ op = "init"
    /\ op' = "intersected"
    /\ res' = intersected(a, b)
    /\ nonEmpty' = WorkingIntervalBool(intersected(a, b))
    /\ UNCHANGED <<a, b, off, build, scheduleVars>>

NextInterval == Shifted \/ ShiftedBack \/ United \/ Intersected

SpecInterval == InitInterval /\ [][NextInterval]_vars

-----------------------------------------------------------------------------
(* Properties of the interval operations                                   *)

\* non-empty or the canonical empty interval {0,0}
Canonical(i) == WorkingIntervalBool(i) \/ i = EmptyInterval

\* the two ranges share at least one second
Overlap(i, j) ==
    /\ WorkingIntervalBool(i)
    /\ WorkingIntervalBool(j)
    /\ i.start < j.end
    /\ j.start < i.end

\* two non-empty ranges overlap or touch
OverlapOrTouch(i, j) ==
    /\ WorkingIntervalBool(i)
    /\ WorkingIntervalBool(j)
    /\ i.start <= j.end
    /\ j.start <= i.end

\* C1: a.intersected(b) is {max(a.start,b.start), min(a.end,b.end)} when that
\* range has start < end and {0,0} otherwise; it is empty whenever a and b do
\* not overlap (an empty operand included) and never has negative width.
C1_Intersected ==
    op = "intersected" =>
        LET s == Max(a.start, b.start)
            e == Min(a.end, b.end)
        IN  /\ res = (IF s < e THEN Interval(s, e) ELSE EmptyInterval)
            /\ (~Overlap(a, b) => res = EmptyInterval)
            /\ (Overlap(a, b) => WorkingIntervalBool(res))
            /\ res.start <= res.end

\* C1 witness: two non-empty ranges that partly overlap were intersected and
\* the result is the proper sub-range between them.
C1_Witness ==
    /\ op = "intersected"
    /\ a.start < b.start
    /\ b.start < a.end
    /\ a.end < b.end
    /\ res = Interval(b.start, a.end)

\* C2: a.united(b) is b when a is empty, a when b is empty and a is not, and
\* otherwise the bounding interval {min start, max end}, whether or not a and
\* b overlap or touch.
C2_United ==
    op = "united" =>
        /\ (~WorkingIntervalBool(a) => res = b)
        /\ (WorkingIntervalBool(a) /\ ~WorkingIntervalBool(b) => res = a)
        /\ (WorkingIntervalBool(a) /\ WorkingIntervalBool(b) =>
                res = Interval(Min(a.start, b.start), Max(a.end, b.end)))

\* C2 witness: two non-empty ranges with a gap between them were united and
\* the result is the bounding range, different from both.
C2_Witness ==
    /\ op = "united"
    /\ WorkingIntervalBool(a)
    /\ WorkingIntervalBool(b)
    /\ a.end < b.start
    /\ res = Interval(a.start, b.end)

\* C3 as stated: every interval operation returns a non-empty interval or the
\* canonical empty interval {0,0}.
C3_EveryOperationCanonical ==
    op \in {"shifted", "shiftedBack", "united", "intersected"} => Canonical(res)

\* C3 amended: intersected returns a non-empty interval or {0,0} for any
\* operands; united returns a non-empty interval or {0,0} whenever each
\* operand is one, and is empty only when both operands are empty, in which
\* case it hands back its argument as it is.
C3_IntersectedAndUnitedCanonical ==
    /\ (op = "intersected" => Canonical(res))
    /\ (op = "united" /\ Canonical(a) /\ Canonical(b) => Canonical(res))
    /\ (op = "united" =>
            (WorkingIntervalBool(res) <=>
                (WorkingIntervalBool(a) \/ WorkingIntervalBool(b))))
    /\ (op = "united" /\ ~WorkingIntervalBool(res) => res = b)

\* C3 witness: intersected met two non-empty ranges that do not overlap, whose
\* raw max/min range has negative width, and returned {0,0}.
C3_Witness ==
    /\ op = "intersected"
    /\ WorkingIntervalBool(a)
    /\ WorkingIntervalBool(b)
    /\ Max(a.start, b.start) > Min(a.end, b.end)
    /\ res = EmptyInterval

\* C8: for non-empty a and b that overlap or touch, a.united(b) = b.united(a).
C8_UnitedCommutes ==
    (op = "united" /\ OverlapOrTouch(a, b)) => res = united(b, a)

\* C8 witness: two different non-empty overlapping ranges, neither inside the
\* other, were united.
C8_Witness ==
    /\ op = "united"
    /\ OverlapOrTouch(a, b)
    /\ b.start < a.start
    /\ b.end < a.end
    /\ res = Interval(b.start, a.end)

\* C9 as stated: shifting by an offset and back returns the original interval,
\* and a shift does not fail and keeps the emptiness of the interval, both in
\* the start and end it returns and in what operator bool answers for them.
C9_ShiftRoundTrip ==
    /\ op # "trapped"
    /\ (op = "shifted" =>
            /\ (WorkingIntervalBool(res) <=> WorkingIntervalBool(a))
            /\ (nonEmpty <=> WorkingIntervalBool(a)))
    /\ (op = "shiftedBack" => res = a /\ (nonEmpty <=> WorkingIntervalBool(a)))

\* C9 where no addition overflows int32: the shift keeps emptiness and the
\* round trip returns the original interval.
C9_ShiftRoundTripInRange ==
    /\ (op = "shifted" /\ ~ShiftOverflows(a, off) =>
            /\ (WorkingIntervalBool(res) <=> WorkingIntervalBool(a))
            /\ (nonEmpty <=> WorkingIntervalBool(a)))
    /\ (op = "shiftedBack" /\ ~ShiftOverflows(a, off) =>
            res = a /\ (nonEmpty <=> WorkingIntervalBool(a)))

\* what operator bool answers for a.shifted(off) differs from start < end of
\* the pair the same call returned only at a call site that folds it, and only
\* when an addition has overflowed
C9_BoolDisagreesOnlyOnOverflow ==
    (op \in {"shifted", "shiftedBack"} /\ nonEmpty # WorkingIntervalBool(res))
        => (build = "assume" /\ ShiftOverflows(a, off))

-----------------------------------------------------------------------------
(* Properties of the schedule operations                                   *)

\* the endpoints of a list's intervals
EndpointsOf(list) ==
    UNION {{list[k].start, list[k].end} : k \in 1..Len(list)}

\* second p of the absolute timeline is covered by the list
CoveredAbs(list, p) ==
    \E k \in 1..Len(list) : list[k].start <= p /\ p < list[k].end

\* second p of the week, 0 <= p < kWeek, is covered by the list modulo kWeek
CoveredMod(list, p) ==
    \E w \in -1..1 : CoveredAbs(list, p + w * kWeek)

\* the two lists cover the same seconds of the absolute timeline: coverage
\* only changes at an endpoint, so it is compared at every endpoint
SameUnionAbs(l1, l2) ==
    \A p \in EndpointsOf(l1) \cup EndpointsOf(l2) :
        CoveredAbs(l1, p) <=> CoveredAbs(l2, p)

\* the two lists cover the same seconds of the week, modulo kWeek
SameUnionMod(l1, l2) ==
    \A p \in {x % kWeek : x \in EndpointsOf(l1) \cup EndpointsOf(l2)} :
        CoveredMod(l1, p) <=> CoveredMod(l2, p)

\* no empty interval, sorted by start, consecutive intervals apart
SortedApart(list) ==
    /\ \A k \in 1..Len(list) : WorkingIntervalBool(list[k])
    /\ \A k \in 1..(Len(list) - 1) :
          /\ list[k].start < list[k + 1].start
          /\ list[k].end < list[k + 1].start

\* the two examples of the specification
NormalizedExamples ==
    /\ normalized(<<Interval(0, 100), Interval(50, 150)>>) = <<Interval(0, 150)>>
    /\ normalized(<<Interval(0, 100), Interval(200, 300)>>)
           = <<Interval(0, 100), Interval(200, 300)>>

\* C4 as stated: normalized() returns a list without empty intervals, sorted
\* by start, consecutive intervals apart (prev.end < next.start), covering
\* exactly the seconds the non-empty input intervals cover.
C4_NormalizedSameSeconds ==
    /\ NormalizedExamples
    /\ op = "normalized" =>
          /\ SortedApart(hours.intervals)
          /\ SameUnionAbs(prev.intervals, hours.intervals)

\* C4 amended: normalized() returns a list without empty intervals, sorted by
\* start, consecutive intervals apart, covering the same seconds of the week
\* as the non-empty input intervals when seconds are taken modulo kWeek.
C4_NormalizedSameSecondsOfWeek ==
    /\ NormalizedExamples
    /\ op = "normalized" =>
          /\ SortedApart(hours.intervals)
          /\ SameUnionMod(prev.intervals, hours.intervals)

\* C4 witness: an unsorted input with an interval overshooting the week end
\* was normalized to fewer intervals, and the overshoot was wrapped to the
\* start of the week.
C4_Witness ==
    /\ op = "normalized"
    /\ Len(prev.intervals) = 3
    /\ prev.intervals[1].start > prev.intervals[2].start
    /\ Len(hours.intervals) = 2
    /\ ~SameUnionAbs(prev.intervals, hours.intervals)

\* C5: normalizing a list that normalized() or ReplaceDayIntervals returned
\* gives the same list again.
C5_NormalizedIdempotent ==
    (op = "normalized" /\ pop \in {"normalized", "replace"}) => hours = prev

\* C5 witness: the second of two normalizations has run on a list in which
\* the first one cut one tail at the week end and merged it at the start of
\* the week, and left a later interval past the week end as an overshoot.
C5_Witness ==
    /\ op = "normalized"
    /\ pop = "normalized"
    /\ hours.intervals # <<>>
    /\ hours.intervals[1].start = 0
    /\ \E k \in 1..Len(hours.intervals) : hours.intervals[k].end = kWeek
    /\ hours.intervals[Len(hours.intervals)].start > kWeek

\* C6 as stated: ExtractDayIntervals on the result of RemoveDayIntervals for
\* the same day is the empty list.
C6_ExtractAfterRemoveEmpty ==
    (op = "extract" /\ pop = "remove") => ext = <<>>

\* C6 for the nominal day: what ExtractDayIntervals finds after
\* RemoveDayIntervals for the same day holds no second of the day itself,
\* only seconds of the kInNextDayMax past its end.
C6_ExtractAfterRemoveNothingOfDay ==
    (op = "extract" /\ pop = "remove") =>
        \A k \in 1..Len(ext) : ext[k].start >= kDay

\* C6 case: the day was removed from a schedule with an interval of the
\* following day inside the day's extended window, and the day was extracted
\* from the result.
C6_Witness ==
    /\ op = "extract"
    /\ pop = "remove"
    /\ \E k \in 1..Len(hours.intervals) :
          /\ hours.intervals[k].start >= DayNominal(day).end
          /\ hours.intervals[k].start < DayWindow(day).end

\* a list normalized() leaves as it is
IsNormalized(list) == normalized(list) = list

\* C7: replacing a day of a normalized schedule by the intervals extracted
\* for that day gives the schedule back.
C7_ExtractReplaceRoundTrip ==
    (op = "replace" /\ pop = "extract" /\ IsNormalized(prev.intervals))
        => hours = prev

\* C7 witness: the round trip ran on a normalized schedule with an interval
\* that the day's window cuts in two, one part extracted and one part left.
C7_Witness ==
    /\ op = "replace"
    /\ pop = "extract"
    /\ IsNormalized(prev.intervals)
    /\ \E k \in 1..Len(prev.intervals) :
          LET clip == intersected(prev.intervals[k], DayWindow(day))
          IN  WorkingIntervalBool(clip) /\ clip # prev.intervals[k]

\* C10: bool(hours) is TRUE exactly when the timezone id is non-empty,
\* whatever the intervals hold, and normalized() keeps the timezone id, so
\* the truthiness after normalized() is that of the value before.
C10_TruthyIffTimezone ==
    /\ op = "bool" => (truthy <=> hours.timezoneId # "")
    /\ op = "normalized" => hours.timezoneId = prev.timezoneId
    /\ (op = "bool" /\ pop = "normalized") => (truthy <=> prev.timezoneId # "")

\* C10 witness: hours with a timezone id and no non-empty interval tested
\* truthy after normalization.
C10_Witness ==
    /\ op = "bool"
    /\ pop = "normalized"
    /\ truthy
    /\ prev.intervals # <<>>
    /\ ~WorkingIntervalsBool(prev.intervals)

=============================================================================
